---- MODULE Spec2Model ----
(***************************************************************************)
(* A model of the CHIP-8 interpreter: Memory (src/src/memory.rs), the      *)
(* memory-mapped Display helpers (src/src/display.rs) and the Interpreter  *)
(* (src/src/interpreter.rs).  One state of the model is the Memory and the *)
(* Interpreter of one emulation session; the actions are the public calls  *)
(* the host makes: step, decrement_timers and apply_input.                 *)
(*                                                                         *)
(* A Rust panic ends the session: `fault` then holds the reason and no     *)
(* call is made any more.  Integer overflow panics in a build with         *)
(* overflow checks ("debug") and wraps in one without ("release"); `build` *)
(* is fixed at start and both are explored.                                *)
(***************************************************************************)
EXTENDS Integers, Sequences, FiniteSets, TLC

VARIABLES
    mem,        \* Memory.data: [u8; MAX_SIZE]
    stack,      \* Interpreter.stack: [u16; STACK_SIZE]
    sc,         \* Interpreter.sc: u8, stack counter
    vi,         \* Interpreter.vi: u16, index register
    vx,         \* Interpreter.vx: [u8; NUM_REGISTERS]
    pc,         \* Interpreter.pc: u16
    dt,         \* Interpreter.dt: u8, delay timer
    st,         \* Interpreter.st: u8, sound timer
    key_held,   \* Interpreter.key_held: [bool; NUM_KEYS]
    stop,       \* Interpreter.stop
    opcode,     \* the word the last step fetched (step's local), -1 before any
    fault,      \* "none", or the panic that ended the session
    build,      \* "debug" (overflow checks) or "release" (wrapping)
    calls       \* history: the addresses of the 2nnn calls not yet returned from

vars ==
    <<mem, stack, sc, vi, vx, pc, dt, st, key_held, stop, opcode, fault, build,
      calls>>

-----------------------------------------------------------------------------
(* Program constants *)

MAX_SIZE == 4096
PROG_LOC == 512
DISPLAY_LOC == 3840
FONT_LOC == 80
FONT_CHAR_SIZE == 5
STACK_SIZE == 255
NUM_REGISTERS == 16
NUM_KEYS == 16

U8 == 256
U16 == 65536

-----------------------------------------------------------------------------
(* Bit arithmetic on unsigned integers, as the machine computes it *)

RECURSIVE AndBits(_, _, _)
AndBits(a, b, w) ==
    IF w = 0 THEN 0
    ELSE (a % 2) * (b % 2) + 2 * AndBits(a \div 2, b \div 2, w - 1)

RECURSIVE OrBits(_, _, _)
OrBits(a, b, w) ==
    IF w = 0 THEN 0
    ELSE (IF (a % 2) + (b % 2) > 0 THEN 1 ELSE 0)
         + 2 * OrBits(a \div 2, b \div 2, w - 1)

RECURSIVE XorBits(_, _, _)
XorBits(a, b, w) ==
    IF w = 0 THEN 0
    ELSE (((a % 2) + (b % 2)) % 2) + 2 * XorBits(a \div 2, b \div 2, w - 1)

\* v >> k
Shr(v, k) == v \div (2 ^ k)

\* v << k in a type of the given modulus (bits shifted out are lost)
Shl(v, k, modulus) == (v * (2 ^ k)) % modulus

-----------------------------------------------------------------------------
(* The session as one record, so that the code's sequential steps compose *)

Cur ==
    [mem |-> mem, stack |-> stack, sc |-> sc, vi |-> vi, vx |-> vx, pc |-> pc,
     dt |-> dt, st |-> st, key_held |-> key_held, stop |-> stop,
     opcode |-> opcode, fault |-> fault, build |-> build]

\* a panic: the statement that panics and all that follow it have no effect
Panic(s, msg) == IF s.fault = "none" THEN [s EXCEPT !.fault = msg] ELSE s

Running(s) == s.fault = "none"

\* an arithmetic result v that does not fit the modulus: panic under overflow
\* checks, wrapped otherwise
Overflows(s, v, modulus) == (v < 0 \/ v >= modulus) /\ s.build = "debug"

Wrap(v, modulus) == v % modulus

-----------------------------------------------------------------------------
(* Memory *)

\* Memory::read indexes data[addr]: a panic outside the array
InRange(addr) == addr >= 0 /\ addr < MAX_SIZE

read(s, addr) == s.mem[addr]

\* mutant: the address is reduced modulo the memory size
write_wrapping(s, addr, data) ==
    IF ~Running(s) THEN s
    ELSE [s EXCEPT !.mem[addr % MAX_SIZE] = data]

write(s, addr, data) ==
    IF ~Running(s) THEN s
    ELSE IF ~InRange(addr) THEN Panic(s, "index out of bounds: memory")
    ELSE [s EXCEPT !.mem[addr] = data]

\* the bytes are read at addr and addr + 1; the first is the high byte
ReadU16Ok(addr) == InRange(addr) /\ InRange(addr + 1)

read_u16(s, addr) ==
    LET lo == read(s, addr)
        hi == read(s, addr + 1)
    IN  OrBits(Shl(lo, 8, U16), hi, 16)

\* mutant: the least-significant byte is stored first
write_u16_little_endian(s, addr, data) ==
    LET lo == Shr(data, 8) % U8
        hi == data % U8
    IN  write(write(s, addr, hi), addr + 1, lo)

write_u16(s, addr, data) ==
    LET lo == Shr(data, 8) % U8
        hi == data % U8
    IN  write(write(s, addr, lo), addr + 1, hi)

\* the loaders' loop: byte i of the slice is stored at base + i
LoadAt(m, base, bytes) ==
    [a \in base..(base + Len(bytes) - 1) |-> bytes[a - base + 1]] @@ m

load_prog(m, prgm) == LoadAt(m, PROG_LOC, prgm)

load_font(m, font) == LoadAt(m, FONT_LOC, font)

new_memory == [a \in 0..(MAX_SIZE - 1) |-> 0]

-----------------------------------------------------------------------------
(* Display: the framebuffer is the memory at DISPLAY_LOC *)

pos_to_bit_index(px, py) == px + 64 * py

pos_to_byte_addr(px, py) == DISPLAY_LOC + (pos_to_bit_index(px, py) \div 8)

\* mutant: the offset is counted from the least significant bit
pos_to_bit_offset_from_lsb(px, py) == 7 - ((pos_to_bit_index(px, py) % U8) % 8)

pos_to_bit_offset(px, py) == (pos_to_bit_index(px, py) % U8) % 8

read_pixel(s, px, py) ==
    LET byte == read(s, pos_to_byte_addr(px, py))
        bit == Shr(byte, 7 - pos_to_bit_offset(px, py))
    IN  AndBits(bit, 1, 8)

\* mutant: the pixel is set (OR), not toggled (XOR)
write_pixel_or(s, px, py) ==
    LET byte_addr == pos_to_byte_addr(px, py)
        bit_offset == pos_to_bit_offset(px, py)
        byte_to_write == Shr(128, bit_offset)
    IN  IF ~Running(s) THEN s
        ELSE IF ~InRange(byte_addr) THEN Panic(s, "index out of bounds: memory")
        ELSE write(s, byte_addr, OrBits(read(s, byte_addr), byte_to_write, 8))

write_pixel(s, px, py) ==
    LET byte_addr == pos_to_byte_addr(px, py)
        bit_offset == pos_to_bit_offset(px, py)
        byte_to_write == Shr(128, bit_offset)
    IN  IF ~Running(s) THEN s
        ELSE IF ~InRange(byte_addr) THEN Panic(s, "index out of bounds: memory")
        ELSE write(s, byte_addr, XorBits(read(s, byte_addr), byte_to_write, 8))

-----------------------------------------------------------------------------
(* Interpreter: accessors and opcode fields *)

set_vx(s, rx, data) == IF ~Running(s) THEN s ELSE [s EXCEPT !.vx[rx] = data]

set_vf(s, data) == IF ~Running(s) THEN s ELSE [s EXCEPT !.vx[15] = data]

vf(s) == s.vx[15]

\* mutant: the value goes to both timers
set_both_timers(s, value) == [s EXCEPT !.dt = value, !.st = value]

set_dt(s, value) == [s EXCEPT !.dt = value]

set_st(s, value) == [s EXCEPT !.st = value]

mode(op) == Shr(AndBits(op, 61440, 16), 12)

x(op) == Shr(AndBits(op, 3840, 16), 8)

y(op) == Shr(AndBits(op, 240, 16), 4)

n(op) == AndBits(op, 15, 16)

nn(op) == AndBits(op, 255, 16)

nnn(op) == AndBits(op, 4095, 16)

\* mutant: the timers are decremented without the test, modulo 256
decrement_timers_wrapping(s) ==
    [s EXCEPT !.dt = Wrap(s.dt - 1, U8), !.st = Wrap(s.st - 1, U8)]

decrement_timers(s) ==
    LET t == IF s.dt > 0 THEN [s EXCEPT !.dt = s.dt - 1] ELSE s
    IN  IF t.st > 0 THEN [t EXCEPT !.st = t.st - 1] ELSE t

\* the keys are reset, then every key the host reports held is set
apply_input(s, held) ==
    [s EXCEPT !.key_held = [k \in 0..(NUM_KEYS - 1) |-> k \in held]]

\* mutant: the last held key is reported
get_last_key_pressed(s) ==
    IF \E k \in 0..(NUM_KEYS - 1) : s.key_held[k]
    THEN CHOOSE k \in 0..(NUM_KEYS - 1) :
            s.key_held[k] /\ \A j \in (k + 1)..(NUM_KEYS - 1) : ~s.key_held[j]
    ELSE -1

\* Some(index of the first held key), or None (-1)
get_first_key_pressed(s) ==
    IF \E k \in 0..(NUM_KEYS - 1) : s.key_held[k]
    THEN CHOOSE k \in 0..(NUM_KEYS - 1) :
            s.key_held[k] /\ \A j \in 0..(k - 1) : ~s.key_held[j]
    ELSE -1

\* mutant: the stack holds 16 return addresses and the 17th push is fatal
stack_push_sixteen_deep(s, value) ==
    IF ~Running(s) THEN s
    ELSE IF s.sc >= 16 THEN Panic(s, "index out of bounds: stack")
    ELSE [s EXCEPT !.stack[s.sc] = value, !.sc = s.sc + 1]

\* stack[sc] = value; sc += 1
stack_push(s, value) ==
    IF ~Running(s) THEN s
    ELSE IF s.sc >= STACK_SIZE THEN Panic(s, "index out of bounds: stack")
    ELSE LET t == [s EXCEPT !.stack[s.sc] = value]
         IN  IF Overflows(t, t.sc + 1, U8)
             THEN Panic(t, "attempt to add with overflow")
             ELSE [t EXCEPT !.sc = Wrap(t.sc + 1, U8)]

\* mutant: the counter saturates at 0 and the pop of an empty stack goes on
stack_pop_saturating(s) ==
    IF ~Running(s) THEN s
    ELSE [s EXCEPT !.sc = IF s.sc = 0 THEN 0 ELSE s.sc - 1]

\* sc -= 1; then stack[sc] is read (the caller takes it from the result)
stack_pop(s) ==
    IF ~Running(s) THEN s
    ELSE IF Overflows(s, s.sc - 1, U8)
    THEN Panic(s, "attempt to subtract with overflow")
    ELSE LET t == [s EXCEPT !.sc = Wrap(s.sc - 1, U8)]
         IN  IF t.sc >= STACK_SIZE THEN Panic(t, "index out of bounds: stack")
             ELSE t

-----------------------------------------------------------------------------
(* Interpreter::exec, one operator per mode *)

\* 00E0: for pixel_addr in 0x00..0xFF { memory.write(DISPLAY_LOC + pixel_addr, 0) }
\* mutant: every cell of memory is zeroed
clear_memory(s) == [s EXCEPT !.mem = [a \in 0..(MAX_SIZE - 1) |-> 0]]

clear_screen(s) ==
    [s EXCEPT !.mem = [a \in 0..(MAX_SIZE - 1) |->
        IF a >= DISPLAY_LOC + 0 /\ a < DISPLAY_LOC + 255 THEN 0 ELSE s.mem[a]]]

\* 00EE
ret(s) ==
    LET t == stack_pop(s)
    IN  IF Running(t) THEN [t EXCEPT !.pc = t.stack[t.sc]] ELSE t

\* mutant: a 0nnn word that is neither 00E0 nor 00EE is skipped
exec_0_skips_unknown(s, op) ==
    CASE nnn(op) = 224 -> clear_screen(s)
      [] nnn(op) = 238 -> ret(s)
      [] OTHER -> s

exec_0(s, op) ==
    CASE nnn(op) = 224 -> clear_screen(s)
      [] nnn(op) = 238 -> ret(s)
      [] OTHER -> Panic(s, "Unkown opcode")

\* mutant: the address of the call itself is pushed, not the advanced pc
call_pushes_own_address(s, op) ==
    LET t == stack_push(s, s.pc - 2)
    IN  IF Running(t) THEN [t EXCEPT !.pc = nnn(op)] ELSE t

\* 2nnn
call(s, op) ==
    LET t == stack_push(s, s.pc)
    IN  IF Running(t) THEN [t EXCEPT !.pc = nnn(op)] ELSE t

\* pc += 2 when the condition holds
\* mutant: a taken skip passes over two instructions
skip_two_if(s, cond) == IF cond THEN [s EXCEPT !.pc = s.pc + 4] ELSE s

skip_if(s, cond) == IF cond THEN [s EXCEPT !.pc = s.pc + 2] ELSE s

\* mutant: the flag is written before the sum
add_flag_first(s, rx, vxv, vyv) ==
    LET overflows == IF vxv + vyv > 255 THEN 1 ELSE 0
    IN  set_vx(set_vf(s, overflows), rx, Wrap(vxv + vyv, U8))

\* 8xy4: checked_add for the flag, wrapping_add for the result, the flag last
add(s, rx, vxv, vyv) ==
    LET overflows == IF vxv + vyv > 255 THEN 1 ELSE 0
    IN  set_vf(set_vx(s, rx, Wrap(vxv + vyv, U8)), overflows)

\* mutant: the flag is the borrow itself (1 when the subtraction underflows)
sub_flag_is_borrow(s, rx, a, b) ==
    LET underflows == IF a - b < 0 THEN 1 ELSE 0
    IN  set_vf(set_vx(s, rx, Wrap(a - b, U8)), underflows)

\* 8xy5 (a = Vx, b = Vy) and 8xy7 (a = Vy, b = Vx): Vx = a - b, the flag last
sub(s, rx, a, b) ==
    LET underflows == IF a - b < 0 THEN 1 ELSE 0
    IN  set_vf(set_vx(s, rx, Wrap(a - b, U8)), 1 - underflows)

\* mutant: Vy is shifted into Vx
shift_from_vy(s, op, left) ==
    LET vyv == s.vx[y(op)]
        shifted_bit == IF left THEN Shr(AndBits(vyv, 128, 8), 7)
                       ELSE AndBits(vyv, 1, 8)
        result == IF left THEN Shl(vyv, 1, U8) ELSE Shr(vyv, 1)
    IN  set_vf(set_vx(s, x(op), result), shifted_bit)

\* 8xy6 (right) and 8xyE (left): Vx is shifted in place, the flag last
shift(s, op, left) ==
    LET vxv == s.vx[x(op)]
        shifted_bit == IF left THEN Shr(AndBits(vxv, 128, 8), 7)
                       ELSE AndBits(vxv, 1, 8)
        result == IF left THEN Shl(vxv, 1, U8) ELSE Shr(vxv, 1)
    IN  set_vf(set_vx(s, x(op), result), shifted_bit)

exec_8(s, op) ==
    LET vxv == s.vx[x(op)]
        vyv == s.vx[y(op)]
    IN  CASE n(op) = 0 -> set_vx(s, x(op), vyv)
          [] n(op) = 1 -> set_vx(s, x(op), OrBits(vxv, vyv, 8))
          [] n(op) = 2 -> set_vx(s, x(op), AndBits(vxv, vyv, 8))
          [] n(op) = 3 -> set_vx(s, x(op), XorBits(vxv, vyv, 8))
          [] n(op) = 4 -> add(s, x(op), vxv, vyv)
          [] n(op) = 5 -> sub(s, x(op), vxv, vyv)
          [] n(op) = 7 -> sub(s, x(op), vyv, vxv)
          [] n(op) = 6 -> shift(s, op, FALSE)
          [] n(op) = 14 -> shift(s, op, TRUE)
          [] OTHER -> Panic(s, "Unknown N for instruction: 0x8XYN")

\* one sprite byte: its 8 bits, most significant first
RECURSIVE draw_bits(_, _, _, _, _, _)
draw_bits(s, sprite_byte, vxv, vyv, row, col) ==
    IF col = 8 \/ ~Running(s) THEN s
    ELSE LET sprite_bit == AndBits(Shr(sprite_byte, 7 - col), 1, 8)
         IN  IF sprite_bit = 1
             THEN IF Overflows(s, vxv + col, U8) \/ Overflows(s, vyv + row, U8)
                  THEN Panic(s, "attempt to add with overflow")
                  ELSE LET pos_x == Wrap(vxv + col, U8)
                           pos_y == Wrap(vyv + row, U8)
                           t == IF pos_x < 64 /\ pos_y < 32
                                THEN LET curr_pixel == read_pixel(s, pos_x, pos_y)
                                         u == IF curr_pixel = 1 THEN set_vf(s, 1) ELSE s
                                     IN  write_pixel(u, pos_x, pos_y)
                                ELSE s
                       IN  draw_bits(t, sprite_byte, vxv, vyv, row, col + 1)
             ELSE draw_bits(s, sprite_byte, vxv, vyv, row, col + 1)

\* for sprite_byte_addr in vi..(vi + n)
RECURSIVE draw_rows(_, _, _, _, _, _)
draw_rows(s, addr, end, vxv, vyv, row) ==
    IF addr >= end \/ ~Running(s) THEN s
    ELSE IF ~InRange(addr) THEN Panic(s, "index out of bounds: memory")
    ELSE draw_rows(draw_bits(s, read(s, addr), vxv, vyv, row, 0),
                   addr + 1, end, vxv, vyv, row + 1)

\* mutant: the sprite is drawn from column 0, whatever Vx holds
draw_from_column_zero(s, op) ==
    LET vyv == s.vx[y(op)]
    IN  IF Overflows(s, s.vi + n(op), U16)
        THEN Panic(s, "attempt to add with overflow")
        ELSE draw_rows(s, s.vi, Wrap(s.vi + n(op), U16), 0, vyv, 0)

\* Dxyn
draw(s, op) ==
    LET vxv == s.vx[x(op)]
        vyv == s.vx[y(op)]
    IN  IF Overflows(s, s.vi + n(op), U16)
        THEN Panic(s, "attempt to add with overflow")
        ELSE draw_rows(s, s.vi, Wrap(s.vi + n(op), U16), vxv, vyv, 0)

\* mutant: Ex9E skips when the key is up, ExA1 when it is held
exec_E_inverted(s, op) ==
    LET vxv == s.vx[x(op)]
    IN  IF vxv >= NUM_KEYS THEN Panic(s, "index out of bounds: key_held")
        ELSE LET is_key_pressed_at_vx == s.key_held[vxv]
             IN  CASE nn(op) = 158 -> skip_if(s, ~is_key_pressed_at_vx)
                   [] nn(op) = 161 -> skip_if(s, is_key_pressed_at_vx)
                   [] OTHER -> Panic(s, "Unknown NN for instruction: 0xEXNN")

\* mutant: the key index is the low nibble of Vx
exec_E_masked(s, op) ==
    LET is_key_pressed_at_vx == s.key_held[s.vx[x(op)] % NUM_KEYS]
    IN  CASE nn(op) = 158 -> skip_if(s, is_key_pressed_at_vx)
          [] nn(op) = 161 -> skip_if(s, ~is_key_pressed_at_vx)
          [] OTHER -> Panic(s, "Unknown NN for instruction: 0xEXNN")

exec_E(s, op) ==
    LET vxv == s.vx[x(op)]
    IN  IF vxv >= NUM_KEYS THEN Panic(s, "index out of bounds: key_held")
        ELSE LET is_key_pressed_at_vx == s.key_held[vxv]
             IN  CASE nn(op) = 158 -> skip_if(s, is_key_pressed_at_vx)
                   [] nn(op) = 161 -> skip_if(s, ~is_key_pressed_at_vx)
                   [] OTHER -> Panic(s, "Unknown NN for instruction: 0xEXNN")

\* Fx0A
get_key(s, op) ==
    LET first_key_pressed == get_first_key_pressed(s)
    IN  IF first_key_pressed # -1
        THEN set_vx(s, x(op), first_key_pressed)
        ELSE [s EXCEPT !.pc = s.pc - 2]

\* mutant: the ones digit is stored first and the hundreds digit last
bcd_ones_first(s, op) ==
    LET vxv == s.vx[x(op)]
        right_digit == (vxv \div 1) % 10
        mid_digit == (vxv \div 10) % 10
        left_digit == (vxv \div 100) % 10
    IN  write(write(write(s, s.vi, right_digit), s.vi + 1, mid_digit),
              s.vi + 2, left_digit)

\* Fx33
bcd(s, op) ==
    LET vxv == s.vx[x(op)]
        right_digit == (vxv \div 1) % 10
        mid_digit == (vxv \div 10) % 10
        left_digit == (vxv \div 100) % 10
    IN  write(write(write(s, s.vi, left_digit), s.vi + 1, mid_digit),
              s.vi + 2, right_digit)

\* mutant: the index register is left after the last cell written
mem_write_registers_moves_index(s, rx, x_max) ==
    IF ~Running(s) THEN s
    ELSE IF ~InRange(s.vi + x_max) THEN Panic(s, "index out of bounds: memory")
    ELSE [s EXCEPT !.mem = [a \in 0..(MAX_SIZE - 1) |->
                              IF a >= s.vi + rx /\ a <= s.vi + x_max
                              THEN s.vx[a - s.vi] ELSE s.mem[a]],
                   !.vi = s.vi + x_max + 1]

\* Fx55: for x in 0..(x_max + 1) { memory.write(vi + x, vx[x]) }
RECURSIVE mem_write_registers(_, _, _)
mem_write_registers(s, rx, x_max) ==
    IF rx > x_max \/ ~Running(s) THEN s
    ELSE IF Overflows(s, s.vi + rx, U16)
    THEN Panic(s, "attempt to add with overflow")
    ELSE mem_write_registers(write(s, Wrap(s.vi + rx, U16), s.vx[rx]),
                             rx + 1, x_max)

\* Fx65: for x in 0..(x_max + 1) { vx[x] = memory.read(vi + x) }
RECURSIVE registers_read_mem(_, _, _)
registers_read_mem(s, rx, x_max) ==
    IF rx > x_max \/ ~Running(s) THEN s
    ELSE IF Overflows(s, s.vi + rx, U16)
    THEN Panic(s, "attempt to add with overflow")
    ELSE IF ~InRange(Wrap(s.vi + rx, U16))
    THEN Panic(s, "index out of bounds: memory")
    ELSE registers_read_mem(set_vx(s, rx, read(s, Wrap(s.vi + rx, U16))),
                            rx + 1, x_max)

\* mutant: VF reports that the sum has left the 12-bit address space
add_to_index_sets_flag(s, vxv) ==
    set_vf([s EXCEPT !.vi = Wrap(s.vi + vxv, U16)],
           IF s.vi + vxv > 4095 THEN 1 ELSE 0)

\* Fx1E: self.vi = self.vi.wrapping_add(vx as u16)
add_to_index(s, vxv) == [s EXCEPT !.vi = Wrap(s.vi + vxv, U16)]

exec_F(s, op) ==
    LET vxv == s.vx[x(op)]
    IN  CASE nn(op) = 7 -> set_vx(s, x(op), s.dt)
          [] nn(op) = 21 -> set_dt(s, vxv)
          [] nn(op) = 24 -> set_st(s, vxv)
          [] nn(op) = 30 -> add_to_index(s, vxv)
          [] nn(op) = 10 -> get_key(s, op)
          [] nn(op) = 41 -> [s EXCEPT !.vi = FONT_LOC + vxv * FONT_CHAR_SIZE]
          [] nn(op) = 51 -> bcd(s, op)
          [] nn(op) = 85 -> mem_write_registers(s, 0, x(op))
          [] nn(op) = 101 -> registers_read_mem(s, 0, x(op))
          [] OTHER -> Panic(s, "Unknown NN for instruction: 0xFXNN")

\* mutant: the whole word is stored, not its low 12 bits
set_index_unmasked(s, op) == [s EXCEPT !.vi = op]

\* Annn
set_index(s, op) == [s EXCEPT !.vi = nnn(op)]

\* mutant: every word of mode 0 ends the program
is_halt_any_0nnn(op) == mode(op) = 0

\* the reserved word that ends the program
is_halt(op) == op = 0

\* mutant: the carry of the addition goes to VF
add_immediate_sets_flag(s, op) ==
    LET sum == s.vx[x(op)] + nn(op)
    IN  set_vf(set_vx(s, x(op), Wrap(sum, U8)), IF sum > 255 THEN 1 ELSE 0)

\* 7xnn: set_vx(x, vx.wrapping_add(nn))
add_immediate(s, op) == set_vx(s, x(op), Wrap(s.vx[x(op)] + nn(op), U8))

\* mutant: the offset is taken from Vx, x the high nibble of nnn
jump_with_offset_from_vx(s, op) == [s EXCEPT !.pc = nnn(op) + s.vx[x(op)]]

\* Bnnn: self.pc = nnn + self.vx[0] as u16
jump_with_offset(s, op) == [s EXCEPT !.pc = nnn(op) + s.vx[0]]

\* mutant: the random byte is stored unmasked
random_unmasked(s, op, r) == set_vx(s, x(op), r)

\* Cxnn: set_vx(x, r & nn)
random(s, op, r) == set_vx(s, x(op), AndBits(r, nn(op), 8))

\* r is the byte the random source returns (read by Cxnn alone)
exec(s, op, r) ==
    IF is_halt(op) THEN [s EXCEPT !.stop = TRUE]
    ELSE CASE mode(op) = 0 -> exec_0(s, op)
           [] mode(op) = 1 -> [s EXCEPT !.pc = nnn(op)]
           [] mode(op) = 2 -> call(s, op)
           [] mode(op) = 3 -> skip_if(s, s.vx[x(op)] = nn(op))
           [] mode(op) = 4 -> skip_if(s, s.vx[x(op)] # nn(op))
           [] mode(op) = 5 ->
                IF n(op) # 0 THEN Panic(s, "Unknown instruction")
                ELSE skip_if(s, s.vx[x(op)] = s.vx[y(op)])
           [] mode(op) = 6 -> set_vx(s, x(op), nn(op))
           [] mode(op) = 7 -> add_immediate(s, op)
           [] mode(op) = 8 -> exec_8(s, op)
           [] mode(op) = 9 ->
                IF n(op) # 0 THEN Panic(s, "Unknown instruction")
                ELSE skip_if(s, s.vx[x(op)] # s.vx[y(op)])
           [] mode(op) = 10 -> set_index(s, op)
           [] mode(op) = 11 -> jump_with_offset(s, op)
           [] mode(op) = 12 -> random(s, op, r)
           [] mode(op) = 13 -> draw(s, op)
           [] mode(op) = 14 -> exec_E(s, op)
           [] mode(op) = 15 -> exec_F(s, op)
           [] OTHER -> Panic(s, "Unknown mode")

\* Interpreter::next
next(s) == read_u16(s, s.pc)

\* Interpreter::step: fetch, pc += 2, exec
step(s, r) ==
    IF ~ReadU16Ok(s.pc) THEN Panic(s, "index out of bounds: memory")
    ELSE LET op == next(s)
         IN  exec([s EXCEPT !.opcode = op, !.pc = s.pc + 2], op, r)

-----------------------------------------------------------------------------
(* Start of a session: Memory::new, load_font, pixels the host has set,    *)
(* load_prog, Interpreter::new                                             *)

\* the 16 glyphs main loads at FONT_LOC
FONT ==
    << 240, 144, 144, 144, 240,   32,  96,  32,  32, 112,
       240,  16, 240, 128, 240,  240,  16, 240,  16, 240,
       144, 144, 240,  16,  16,  240, 128, 240,  16, 240,
       240, 128, 240, 144, 240,  240,  16,  32,  64,  64,
       240, 144, 240, 144, 240,  240, 144, 240,  16, 240,
       240, 144, 240, 144, 144,  224, 144, 224, 144, 224,
       240, 128, 128, 128, 240,  224, 144, 144, 144, 224,
       240, 128, 240, 128, 240,  240, 128, 240, 128, 128 >>

new_interpreter(m, b) ==
    [mem |-> m,
     stack |-> [i \in 0..(STACK_SIZE - 1) |-> 0],
     sc |-> 0,
     vi |-> 0,
     vx |-> [i \in 0..(NUM_REGISTERS - 1) |-> 0],
     pc |-> 512,
     dt |-> 0,
     st |-> 0,
     key_held |-> [k \in 0..(NUM_KEYS - 1) |-> FALSE],
     stop |-> FALSE,
     opcode |-> -1,
     fault |-> "none",
     build |-> b]

\* Display::write_pixel on each position of a sequence, in order
RECURSIVE PresetPixels(_, _, _)
PresetPixels(s, pixels, i) ==
    IF i > Len(pixels) THEN s
    ELSE PresetPixels(write_pixel(s, pixels[i][1], pixels[i][2]), pixels, i + 1)

Boot(prgm, pixels, b) ==
    LET s0 == new_interpreter(load_font(new_memory, FONT), b)
        s1 == PresetPixels(s0, pixels, 1)
    IN  [s1 EXCEPT !.mem = load_prog(s1.mem, prgm)]

\* a program image: big-endian instruction words, then data bytes
RECURSIVE Words(_)
Words(ws) ==
    IF ws = <<>> THEN <<>>
    ELSE <<Head(ws) \div 256, Head(ws) % 256>> \o Words(Tail(ws))

Builds == {"debug", "release"}

Starts(s) ==
    /\ mem = s.mem
    /\ stack = s.stack
    /\ sc = s.sc
    /\ vi = s.vi
    /\ vx = s.vx
    /\ pc = s.pc
    /\ dt = s.dt
    /\ st = s.st
    /\ key_held = s.key_held
    /\ stop = s.stop
    /\ opcode = s.opcode
    /\ fault = s.fault
    /\ build = s.build
    /\ calls = <<>>

Becomes(s) ==
    /\ mem' = s.mem
    /\ stack' = s.stack
    /\ sc' = s.sc
    /\ vi' = s.vi
    /\ vx' = s.vx
    /\ pc' = s.pc
    /\ dt' = s.dt
    /\ st' = s.st
    /\ key_held' = s.key_held
    /\ stop' = s.stop
    /\ opcode' = s.opcode
    /\ fault' = s.fault
    /\ build' = s.build

-----------------------------------------------------------------------------
(* The programs explored *)

\* keys the host reports are among 0..MaxKey
MaxKey == 0

\* and one pair of higher keys held together
HighKeys == {3, 7}

KeySets == SUBSET (0..MaxKey) \cup {HighKeys}

\* sprites are drawn with 1..MaxRows rows
MaxRows == 2

\* halt, then instructions the host may still step into
HaltThenMore == Words(<<0, 27141, 41251, 4610>>)       \* 0000 6A05 A123 1202

\* test_subroutines: 00E0 2206 0000 A0C0 00EE
Subroutines == Words(<<224, 8710, 0, 41152, 238>>)

\* calls nested three deep:
\* 200: 2206  202: 0000  204: 0000  206: 220C  208: 6101  20A: 00EE
\* 20C: 2210  20E: 00EE  210: 00EE
Nested == Words(<<8710, 0, 0, 8716, 24833, 238, 8720, 238, 238>>)

\* a return with nothing stacked
ReturnFirst == Words(<<238>>)

\* 200: 2204  202: 00EE  204: 00EE: the second return finds the stack empty
ReturnTwice == Words(<<8708, 238, 238>>)

\* 200: 2200: a call of itself, for ever deeper
Recurse == Words(<<8704>>)

\* 60FF AFFF F01E F01E F029 0000 120C
IndexAdd == Words(<<24831, 45055, 61470, 61470, 61481, 0, 4620>>)

\* I = 0xFFF, then 242 times I += 255, which passes 0xFFFF:
\* 200: 60FF  202: 61F2  204: AFFF  206: F01E  208: 71FF  20A: 3100
\* 20C: 1206  20E: 0000  210: 1210
IndexWrap ==
    Words(<<24831, 25074, 45055, 61470, 29183, 12544, 4614, 0, 4624>>)

\* 6003 F015 6102 F118 F207 0000 120C
Timers == Words(<<24579, 61461, 24834, 61720, 61959, 0, 4620>>)

Programs ==
    {HaltThenMore, Subroutines, Nested, ReturnFirst, ReturnTwice, Recurse,
     IndexAdd, IndexWrap, Timers}

\* the sprite of test_display, and one with set bits at both ends
Sprites == {<<255, 240, 213, 255>>, <<129, 24, 255, 1>>}

DrawVx == {1, 60, 250}

DrawVy == {2, 31, 255}

\* 6Fvf 60vx 61vy A210 D01n D01n 00E0 0000, the sprite at 0x210
DrawProgram(vf0, vxv, vyv, rows, sprite) ==
    Words(<<28416 + vf0, 24576 + vxv, 24832 + vyv, 41488,
            53264 + rows, 53264 + rows, 224, 0>>) \o sprite

DrawPrograms ==
    {DrawProgram(vf0, vxv, vyv, rows, sprite) :
        vf0 \in {0, 1}, vxv \in DrawVx, vyv \in DrawVy,
        rows \in 1..MaxRows, sprite \in Sprites}

\* pixels set before the program runs
DrawPresets == {<<>>, <<<<2, 3>>, <<63, 31>>>>}

\* test_display: A20A 6001 6102 D012 0000, then the four sprite bytes
TestDisplay == Words(<<41482, 24577, 24834, 53266, 0>>) \o <<255, 240, 213, 255>>

\* test_display sets the pixel at (2, 3) before the program is loaded
TestDisplayPreset == <<<<2, 3>>>>

\* operands of the arithmetic instructions: both ends, a low bit, a high bit
AluValues == {0, 1, 200, 255}

\* <<x, y>>: distinct registers, the same register, and VF as either operand
AluRegisters == {<<1, 2>>, <<1, 1>>, <<15, 1>>, <<1, 15>>, <<15, 15>>}

\* the 8xyN variants that write VF: add, sub, shift right, subn, shift left
AluOps == {4, 5, 6, 7, 14}

\* 6xaa 6ybb 8xyN 0000 1208
AluProgram(rx, ry, a, b, k) ==
    Words(<<24576 + 256 * rx + a, 24576 + 256 * ry + b,
            32768 + 256 * rx + 16 * ry + k, 0, 4616>>)

AluPrograms ==
    {AluProgram(r[1], r[2], a, b, k) :
        r \in AluRegisters, a \in AluValues, b \in AluValues, k \in AluOps}

\* registers that wait for a key
KeyRegisters == {1, 15}

\* 6xEE Fx0A 0000 1206
KeyProgram(rx) == Words(<<24576 + 256 * rx + 238, 61450 + 256 * rx, 0, 4614>>)

KeyPrograms == {KeyProgram(rx) : rx \in KeyRegisters}

\* addresses the registers are stored at: free memory, and the last 8 cells
RegsBases == {768, 4088}

\* k of Fk55 and Fk65
RegsCounts == 0..15

\* V0..VF take the first 16 font bytes, V0..Vk are stored, all registers
\* are zeroed from the cells at 0, V0..Vk are read back:
\* A050 FF65 Annn Fk55 A000 FF65 Annn Fk65 0000 1212
RegsProgram(base, k) ==
    Words(<<41040, 65381, 40960 + base, 61525 + 256 * k, 40960, 65381,
            40960 + base, 61541 + 256 * k, 0, 4626>>)

RegsPrograms == {RegsProgram(base, k) : base \in RegsBases, k \in RegsCounts}

\* values converted to decimal digits: 156 is test_binary_coded_decimal's
BcdValues == {0, 9, 156, 255}

BcdRegisters == {0, 15}

\* 6xvv A500 Fx33 0000 1208
BcdProgram(rx, v) ==
    Words(<<24576 + 256 * rx + v, 42240, 61491 + 256 * rx, 0, 4616>>)

BcdPrograms == {BcdProgram(rx, v) : rx \in BcdRegisters, v \in BcdValues}

OpsPrograms == AluPrograms \cup KeyPrograms

StorePrograms == RegsPrograms \cup BcdPrograms

\* programs that reach the end of the memory:
\* a jump to the last word, which is 0000, and the fetch after it
RunOff == Words(<<8190>>)                                  \* 1FFE

\* a jump to the last cell: the second byte of the fetch is outside
FetchLast == Words(<<8191>>)                               \* 1FFF

\* 609C AFFE F033: the third digit falls outside
BcdEnd == Words(<<24732, 45054, 61491>>)

\* 60FF AFFF F01E F033: I = 0x10FE, the first digit falls outside
BcdPast == Words(<<24831, 45055, 61470, 61491>>)

\* 6011 6122 AFFF F155: V1 falls outside
StoreEnd == Words(<<24593, 24866, 45055, 61781>>)

\* AFFF F165: V1 is read from outside
LoadEnd == Words(<<45055, 61797>>)

\* AFFF D002: the second sprite row is read from outside
DrawEnd == Words(<<45055, 53250>>)

\* I = 0xFFF + 240 * 255 + 240 = 0xFFFF, then a sprite of 2 rows and a
\* store of V0, V1, whose second addresses pass the end of u16:
\* 200: 60FF  202: 61F0  204: AFFF  206: F01E  208: 71FF  20A: 3100
\* 20C: 1206  20E: 60F0  210: F01E  212: D012  214: F155
IndexTop ==
    Words(<<24831, 25072, 45055, 61470, 29183, 12544, 4614, 24816, 61470,
            53266, 61781>>)

MemoryEndPrograms ==
    {RunOff, FetchLast, BcdEnd, BcdPast, StoreEnd, LoadEnd, DrawEnd, IndexTop}

\* words tried as the first instruction: every last nibble of 5xyN, 8xyN and
\* 9xyN, every low byte of ExNN and FxNN, the 0nnn words up to 00FF, 0123
\* and 0FFF
DecodeWords ==
    {base + k : base \in {20496, 32784, 36880}, k \in 0..15}
        \cup {base + k : base \in {57344, 61440}, k \in 0..255}
        \cup 1..255 \cup {291, 4095}

\* the word, then 6A05 0000 1206
DecodeProgram(w) == Words(<<w, 27141, 0, 4614>>)

DecodePrograms == {DecodeProgram(w) : w \in DecodeWords}

FaultPrograms == MemoryEndPrograms \cup DecodePrograms

-----------------------------------------------------------------------------
(* Actions: the calls the host makes on a live session *)

\* 6xaa 7xkk 0000 1206: Vx = a, then the immediate k is added to Vx
AddImmValues == {1, 255}

AddImmProgram(rx, a, k) ==
    Words(<<24576 + 256 * rx + a, 28672 + 256 * rx + k, 0, 4614>>)

AddImmPrograms ==
    {AddImmProgram(rx, a, k) : rx \in {1, 15}, a \in AddImmValues,
                                k \in AddImmValues}

\* 3xnn, 4xnn, 5xy0 and 9xy0 on V1 and V2, and 5xy0 and 9xy0 with y = x
SkipValues == {0, 7}

SkipWords ==
    {12544 + k : k \in SkipValues} \cup {16640 + k : k \in SkipValues}
        \cup {20768, 37152, 20752, 37136}

\* 61aa 62bb w 0000 0000 120A: both instructions after w halt
SkipProgram(a, b, w) == Words(<<24832 + a, 25088 + b, w, 0, 0, 4618>>)

SkipPrograms ==
    {SkipProgram(a, b, w) : a \in SkipValues, b \in SkipValues, w \in SkipWords}

\* 6xkk, then Ex9E or ExA1, then 0000 0000 1208; k is a key (0..15) or not
KeySkipValues == {0, 3, 5, 7, 15, 16, 255}

KeySkipProgram(rx, k, w) ==
    Words(<<24576 + 256 * rx + k, w + 256 * rx, 0, 0, 4616>>)

KeySkipPrograms ==
    {KeySkipProgram(rx, k, w) : rx \in KeyRegisters, k \in KeySkipValues,
                                 w \in {57502, 57505}}

\* test_jump: 1204 0000, closed by the same jump at 0x204
JumpDirect == Words(<<4612, 0, 4612>>)

\* test_jump_with_offset: 60vv B206; the words a target may hold follow:
\* 0x206 the same Bnnn, 0x208 and 0x20A self-jumps
JumpOffsets == {0, 1, 2, 4}

JumpOffsetProgram(v) == Words(<<24576 + v, 45574, 0, 45574, 4616, 4618>>)

JumpPrograms == {JumpDirect} \cup {JumpOffsetProgram(v) : v \in JumpOffsets}

\* Cxnn 0000 1204, for the (x, nn) pairs of RandomOperands
RandomOperands == {<<1, 255>>, <<15, 165>>, <<1, 15>>, <<2, 0>>}

RandomProgram(rx, k) == Words(<<49152 + 256 * rx + k, 0, 4612>>)

RandomPrograms == {RandomProgram(p[1], p[2]) : p \in RandomOperands}

\* one instruction of every kind, the writers of memory where they change it:
\*   200 00E0 2206 1208 00EE 6105 3105 0000 4105
\*   210 5120 9120 0000 7103 8124 A050 D125 6A3E
\*   220 6B1E DAB5 00E0 B22A 0000 C300 E09E 6400
\*   230 E0A1 6400 F007 F015 F018 A300 F11E F029
\*   240 A300 F133 F155 F165 F00A 0000 124C
Tour ==
    Words(<<224, 8710, 4616, 238, 24837, 12549, 0, 16645,
            20768, 37152, 0, 28931, 33060, 41040, 53541, 27198,
            27422, 55989, 224, 45610, 0, 49920, 57502, 25600,
            57505, 25600, 61447, 61461, 61464, 41728, 61726, 61481,
            41728, 61747, 61781, 61797, 61450, 0, 4684>>)

\* Tour with both timers running: 6002 F015 F018 6000, then the words of Tour
\*   200 6002 F015 F018 6000 00E0 220E 1210 00EE
\*   210 6105 3105 0000 4105 5120 9120 0000 7103
\*   220 8124 A050 D125 6A3E 6B1E DAB5 00E0 B232
\*   230 0000 C300 E09E 6400 E0A1 6400 F007 F015
\*   240 F018 A300 F11E F029 A300 F133 F155 F165
\*   250 F00A 0000 1254
TimedTour ==
    Words(<<24578, 61461, 61464, 24576, 224, 8718, 4624, 238,
            24837, 12549, 0, 16645, 20768, 37152, 0, 28931,
            33060, 41040, 53541, 27198, 27422, 55989, 224, 45618,
            0, 49920, 57502, 25600, 57505, 25600, 61447, 61461,
            61464, 41728, 61726, 61481, 41728, 61747, 61781, 61797,
            61450, 0, 4692>>)

FlowPrograms ==
    AddImmPrograms \cup SkipPrograms \cup KeySkipPrograms \cup JumpPrograms
        \cup RandomPrograms \cup {Tour, TimedTour}

\* the bytes the random source may return to this step
RandomSource(s) ==
    IF ReadU16Ok(s.pc) /\ mode(next(s)) = 12 THEN 0..(U8 - 1) ELSE {0}

\* the calls outstanding after a step from s to t
Outstanding(cs, s, t) ==
    IF Running(t) /\ t.opcode # 0 /\ mode(t.opcode) = 2 THEN Append(cs, s.pc)
    ELSE IF Running(t) /\ t.opcode = 238 THEN SubSeq(cs, 1, Len(cs) - 1)
    ELSE cs

Step ==
    /\ fault = "none"
    /\ \E r \in RandomSource(Cur) : \E t \in {step(Cur, r)} :
            Becomes(t) /\ calls' = Outstanding(calls, Cur, t)

DecrementTimers ==
    /\ fault = "none"
    /\ \E t \in {decrement_timers(Cur)} : Becomes(t)
    /\ UNCHANGED calls

ApplyInput ==
    /\ fault = "none"
    /\ \E held \in KeySets : \E t \in {apply_input(Cur, held)} : Becomes(t)
    /\ UNCHANGED calls

Next == Step \/ DecrementTimers \/ ApplyInput

Init ==
    \E prgm \in Programs, b \in Builds : Starts(Boot(prgm, <<>>, b))

Spec == Init /\ [][Next]_vars

InitDraw ==
    \/ \E prgm \in DrawPrograms, pixels \in DrawPresets, b \in Builds :
            Starts(Boot(prgm, pixels, b))
    \/ \E b \in Builds : Starts(Boot(TestDisplay, TestDisplayPreset, b))

SpecDraw == InitDraw /\ [][Next]_vars

InitOps ==
    \E prgm \in OpsPrograms, b \in Builds : Starts(Boot(prgm, <<>>, b))

SpecOps == InitOps /\ [][Next]_vars

InitStore ==
    \E prgm \in StorePrograms, b \in Builds : Starts(Boot(prgm, <<>>, b))

SpecStore == InitStore /\ [][Next]_vars

InitFault ==
    \E prgm \in FaultPrograms, b \in Builds : Starts(Boot(prgm, <<>>, b))

SpecFault == InitFault /\ [][Next]_vars

InitFlow ==
    \E prgm \in FlowPrograms, b \in Builds : Starts(Boot(prgm, <<>>, b))

SpecFlow == InitFlow /\ [][Next]_vars

\* Memory and Display used on their own, as the unit tests use them

\* addresses and words given to write_u16; 0x0004 and 0xC042 are those of
\* test_read_write_u16, 0x0FFE is the last address a word fits at
WordAddresses == {0, 4, 768, 4094}

WordBytes == {0, 1, 128, 255}

WordValues == {256 * h + l : h \in WordBytes, l \in WordBytes} \cup {49218}

\* pixels given to write_pixel: the ends of the first byte, the next byte,
\* the ends of rows, (2, 3) of test_display, and the last pixel
Pixels == {<<0, 0>>, <<7, 0>>, <<8, 0>>, <<63, 0>>, <<0, 1>>, <<2, 3>>, <<63, 31>>}

\* at most this many of Pixels are lit at a time
MaxLit == 2

LitPixels(m) ==
    {p \in Pixels :
        (m[pos_to_byte_addr(p[1], p[2])]
            \div (2 ^ (7 - pos_to_bit_offset(p[1], p[2])))) % 2 = 1}

\* mem.write_u16(addr, data) on a new Memory
WriteU16 ==
    /\ fault = "none"
    /\ mem = new_memory
    /\ \E addr \in WordAddresses, data \in WordValues :
            \E t \in {write_u16(Cur, addr, data)} : Becomes(t)
    /\ UNCHANGED calls

\* Display::write_pixel(&mut mem, x, y)
WritePixel ==
    /\ fault = "none"
    /\ \E p \in Pixels : \E t \in {write_pixel(Cur, p[1], p[2])} :
            /\ Cardinality(LitPixels(t.mem)) <= MaxLit
            /\ Becomes(t)
    /\ UNCHANGED calls

NextMemory == WriteU16 \/ WritePixel

InitMemory == \E b \in Builds : Starts(new_interpreter(new_memory, b))

SpecMemory == InitMemory /\ [][NextMemory]_vars

-----------------------------------------------------------------------------
(* Vocabulary of the properties *)

\* this transition is a call of step
IsStep ==
    /\ fault = "none"
    /\ \E r \in RandomSource(Cur) : Cur' = step(Cur, r)

\* the word the next step fetches, -1 when the fetch itself fails
Fetched == IF ReadU16Ok(pc) THEN next(Cur) ELSE -1

\* this transition is a step that fetches the word op
StepOf(op) == Fetched = op /\ IsStep

\* this transition is a step that fetches a word of the given mode (not 0000)
StepOfMode(m) == Fetched > 0 /\ mode(Fetched) = m /\ IsStep

Framebuffer == DISPLAY_LOC..(DISPLAY_LOC + 255)

Screen == (0..63) \X (0..31)

-----------------------------------------------------------------------------
(* C1: a step that executes 00E0 leaves every one of the 256 framebuffer   *)
(* bytes 0x0F00..0x0FFF zero, whatever the framebuffer held before.        *)
C1_ClearScreenZeroesFramebuffer ==
    [][StepOf(224) => \A a \in Framebuffer : mem'[a] = 0]_vars

\* the sprite bit of Dxyn's row and column, read from memory as it is before
\* the step
SpriteBit(row, col) == AndBits(Shr(mem[vi + row], 7 - col), 1, 8)

\* the pixels Dxyn is to toggle: sprite bit 1, at the plain integer sums,
\* inside the 64 x 32 screen
DrawnPixels(op) ==
    LET cells == {rc \in (0..(n(op) - 1)) \X (0..7) :
                    InRange(vi + rc[1]) /\ SpriteBit(rc[1], rc[2]) = 1}
    IN  {<<vx[x(op)] + rc[2], vx[y(op)] + rc[1]>> : rc \in cells} \cap Screen

\* the pixels whose value this transition changes
ToggledPixels ==
    {p \in Screen :
        /\ mem'[pos_to_byte_addr(p[1], p[2])] # mem[pos_to_byte_addr(p[1], p[2])]
        /\ read_pixel(Cur', p[1], p[2]) # read_pixel(Cur, p[1], p[2])}

(* C2: Dxyn toggles exactly the pixels (Vx+col, Vy+row) whose sprite bit   *)
(* is 1 and whose coordinates, as plain integer sums, satisfy x < 64 and   *)
(* y < 32; bits that fall outside are not drawn and do not wrap, and no    *)
(* memory outside the framebuffer changes.                                 *)
C2_DrawClipsWithoutWrap ==
    [][StepOfMode(13) =>
        /\ ToggledPixels = DrawnPixels(Fetched)
        /\ \A a \in 0..(MAX_SIZE - 1) : a \notin Framebuffer => mem'[a] = mem[a]
      ]_vars

\* a pixel this transition takes from 1 to 0
Collision ==
    \E p \in ToggledPixels : read_pixel(Cur, p[1], p[2]) = 1

(* C3: after Dxyn, VF is 1 if a pixel was toggled from 1 to 0 and 0 if no  *)
(* collision occurred, whatever VF held before the draw.                   *)
C3_DrawSetsCollisionFlag ==
    [][(StepOfMode(13) /\ fault' = "none") =>
        vx'[15] = (IF Collision THEN 1 ELSE 0)]_vars

(* C4: once the halt flag is set, a later call of step leaves the          *)
(* registers, I, pc, the stack, the timers and memory unchanged.           *)
C4_HaltedStepChangesNothing ==
    [][(stop /\ IsStep) => UNCHANGED <<vx, vi, pc, stack, sc, dt, st, mem>>]_vars

(* C5: the interpreter starts running (halt flag false); the flag becomes  *)
(* true only in a step that fetches 0x0000; once true, no step,            *)
(* decrement_timers or apply_input resets it.                              *)
C5_HaltIsOneWay ==
    /\ ~stop
    /\ [][(stop' # stop) => (~stop /\ stop' /\ StepOf(0))]_vars

\* halted, and stepped, timed and given input since
C5_Witness ==
    /\ stop
    /\ opcode = 4610
    /\ key_held[0]
    /\ fault = "none"


(* C6, as claimed: in every reachable state I <= 0x0FFF.                   *)
C6_IndexFitsTwelveBits == vi <= 4095

\* the last word fetched is Annn or Fx29
LastSetsIndex ==
    /\ opcode > 0
    /\ \/ mode(opcode) = 10
       \/ mode(opcode) = 15 /\ nn(opcode) = 41

(* C6, amended: I always fits 16 bits (I <= 0xFFFF); right after Annn or   *)
(* Fx29 it is at most 0x0FFF, but Fx1E adds Vx modulo 65536 without        *)
(* masking to 12 bits, so I can exceed 0x0FFF.                             *)
C6_IndexFitsSixteenBits ==
    /\ vi \in 0..(U16 - 1)
    /\ LastSetsIndex => vi <= 4095

\* Fx1E has taken I past 0x0FFF: 0x0FFF + 255 = 4350
C6_Witness ==
    /\ opcode = 61470
    /\ vi = 4350
    /\ vx[0] = 255
    /\ fault = "none"

(* C7: executing the same Dxyn (same I, same sprite bytes, same Vx and Vy) *)
(* twice in succession restores every framebuffer byte to the value it had *)
(* before the first draw.  The transition is the first draw; the second is *)
(* the step taken from the state it leaves, where the same word comes next.*)
C7_DrawTwiceRestores ==
    [][(/\ StepOfMode(13)
        /\ fault' = "none"
        /\ ReadU16Ok(pc') /\ next(Cur') = Fetched
        /\ vi' = vi
        /\ vx'[x(Fetched)] = vx[x(Fetched)]
        /\ vx'[y(Fetched)] = vx[y(Fetched)]
        /\ \A row \in 0..(n(Fetched) - 1) : mem'[vi + row] = mem[vi + row])
       => \A second \in {step(Cur', 0)} :
              /\ Running(second)
              /\ \A a \in Framebuffer : second.mem[a] = mem[a]
      ]_vars

\* both draws of a sprite clipped at the right edge are done: the second has
\* met the pixels of the first (VF = 1) and the preset pixels are back
C7_Witness ==
    /\ opcode = 53266
    /\ pc = 524
    /\ fault = "none"
    /\ vx[0] = 60
    /\ vx[15] = 1
    /\ mem[3864] = 32
    /\ mem[4095] = 1

(* C8: 2nnn pushes the already advanced pc (address of the call + 2) and   *)
(* sets pc to nnn; 00EE sets pc to the address right after the matching    *)
(* call, the last one not yet returned from (last in, first out).          *)
C8_CallThenReturn ==
    [][/\ (StepOfMode(2) /\ fault' = "none") =>
            /\ stack'[sc] = pc + 2
            /\ sc' = sc + 1
            /\ pc' = nnn(Fetched)
            /\ \A i \in 0..(sc - 1) : stack'[i] = stack[i]
       /\ (StepOf(238) /\ fault' = "none") =>
            /\ calls # <<>>
            /\ pc' = calls[Len(calls)] + 2
            /\ sc' = sc - 1
            /\ calls' = SubSeq(calls, 1, Len(calls) - 1)
      ]_vars

\* the three nested calls have returned, innermost first, and the program
\* has halted at the word after the first call
C8_Witness ==
    /\ stop
    /\ opcode = 0
    /\ pc = 516
    /\ vx[1] = 1
    /\ sc = 0
    /\ calls = <<>>
    /\ stack[0] = 514 /\ stack[1] = 520 /\ stack[2] = 526

(* C9: 00EE with an empty call stack is fatal: the step fails; no value is *)
(* loaded into pc (it keeps the value the fetch advanced it to).           *)
C9_ReturnOnEmptyStackIsFatal ==
    [][(StepOf(238) /\ sc = 0) => (fault' # "none" /\ pc' = pc + 2)]_vars

\* a return was the first instruction, and the session has ended
C9_Witness ==
    /\ opcode = 238
    /\ fault # "none"
    /\ pc = 514
    /\ calls = <<>>

(* C10: the stack holds at least 16 calls: every call made with fewer than *)
(* STACK_SIZE (255 >= 16) addresses stacked succeeds and keeps the ones    *)
(* below; a call on a full stack is fatal and writes nothing: stack,       *)
(* counter, registers, I, timers, keys, halt flag and memory keep their    *)
(* values, and pc the value the fetch advanced it to.                      *)
C10_StackCapacity ==
    /\ STACK_SIZE >= 16
    /\ [][StepOfMode(2) =>
            IF sc < STACK_SIZE
            THEN /\ fault' = "none"
                 /\ sc' = sc + 1
                 /\ stack'[sc] = pc + 2
                 /\ \A i \in 0..(sc - 1) : stack'[i] = stack[i]
            ELSE /\ fault' # "none"
                 /\ pc' = pc + 2
                 /\ UNCHANGED <<stack, sc, vx, vi, dt, st, key_held, stop, mem>>
         ]_vars

\* the 256th nested call has failed with all 255 return addresses in place
C10_Witness ==
    /\ fault # "none"
    /\ opcode = 8704
    /\ sc = STACK_SIZE
    /\ \A i \in 0..(STACK_SIZE - 1) : stack[i] = 514

-----------------------------------------------------------------------------
\* this transition is a step that fetches 8xyN with the given N
StepOfAlu(k) == Fetched > 0 /\ mode(Fetched) = 8 /\ n(Fetched) = k /\ IsStep

\* nothing but the registers, pc and the fetched word changes, and pc is the
\* address of the next instruction
OnlyRegistersChange ==
    /\ fault' = "none"
    /\ pc' = pc + 2
    /\ UNCHANGED <<mem, stack, sc, vi, dt, st, key_held, stop>>

\* register rx ends with result unless it is VF, VF ends with flag, and no
\* other register changes
ResultThenFlag(rx, result, flag) ==
    /\ vx'[15] = flag
    /\ rx # 15 => vx'[rx] = result
    /\ \A r \in 0..(NUM_REGISTERS - 1) : r \notin {rx, 15} => vx'[r] = vx[r]

(* C11: 8xy4 sets Vx to (Vx + Vy) mod 256 and then VF to 1 iff Vx + Vy >   *)
(* 255 (else 0), both from the operand values read before the instruction; *)
(* when x or y is F, VF ends holding the carry.                            *)
C11_AddSetsCarryLast ==
    [][StepOfAlu(4) =>
        LET a == vx[x(Fetched)]
            b == vx[y(Fetched)]
        IN  /\ OnlyRegistersChange
            /\ ResultThenFlag(x(Fetched), (a + b) % 256,
                              IF a + b > 255 THEN 1 ELSE 0)
      ]_vars

\* 8F14 has added VF = 200 and V1 = 255: the sum is 199, VF holds the carry
C11_Witness ==
    /\ opcode = 36628
    /\ pc = 518
    /\ mem[513] = 200
    /\ vx[1] = 255
    /\ vx[15] = 1
    /\ fault = "none"

(* C12: 8xy5 sets Vx to (Vx - Vy) mod 256 with VF = 1 iff Vx >= Vy and     *)
(* VF = 0 iff Vx < Vy; 8xy7 sets Vx to (Vy - Vx) mod 256 with VF = 1 iff   *)
(* Vy >= Vx; in both the flag is written last from the operands read       *)
(* before the instruction.                                                 *)
C12_SubSetsNoBorrowLast ==
    /\ [][StepOfAlu(5) =>
            LET a == vx[x(Fetched)]
                b == vx[y(Fetched)]
            IN  /\ OnlyRegistersChange
                /\ ResultThenFlag(x(Fetched), (a - b) % 256,
                                  IF a >= b THEN 1 ELSE 0)
         ]_vars
    /\ [][StepOfAlu(7) =>
            LET a == vx[x(Fetched)]
                b == vx[y(Fetched)]
            IN  /\ OnlyRegistersChange
                /\ ResultThenFlag(x(Fetched), (b - a) % 256,
                                  IF b >= a THEN 1 ELSE 0)
         ]_vars

\* 8125 has taken V2 = 200 from V1 = 1: V1 = 57 with a borrow, VF = 0
C12_Witness ==
    /\ opcode = 33061
    /\ pc = 518
    /\ vx[1] = 57
    /\ vx[2] = 200
    /\ vx[15] = 0
    /\ fault = "none"

(* C13: 8xy6 sets Vx to Vx >> 1 and VF to bit 0 of the original Vx; 8xyE   *)
(* sets Vx to (Vx << 1) mod 256 and VF to bit 7 of the original Vx; Vy is  *)
(* neither read into the result nor modified (unless it is Vx or VF).      *)
C13_ShiftsVxInPlace ==
    /\ [][StepOfAlu(6) =>
            LET a == vx[x(Fetched)]
            IN  /\ OnlyRegistersChange
                /\ ResultThenFlag(x(Fetched), a \div 2, a % 2)
         ]_vars
    /\ [][StepOfAlu(14) =>
            LET a == vx[x(Fetched)]
            IN  /\ OnlyRegistersChange
                /\ ResultThenFlag(x(Fetched), (2 * a) % 256, (a \div 128) % 2)
         ]_vars

\* 812E has shifted V1 = 200 left, with V2 = 1: V1 = 144, VF = 1, V2 kept
C13_Witness ==
    /\ opcode = 33070
    /\ pc = 518
    /\ vx[1] = 144
    /\ vx[2] = 1
    /\ vx[15] = 1
    /\ fault = "none"

\* this transition is a step that fetches Fx0A
StepOfGetKey ==
    Fetched > 0 /\ mode(Fetched) = 15 /\ nn(Fetched) = 10 /\ IsStep

HeldKeys == {k \in 0..(NUM_KEYS - 1) : key_held[k]}

(* C14: while no key is held, a step of Fx0A leaves pc at the address of   *)
(* the Fx0A and changes no register, timer, stack entry or memory cell,    *)
(* and so does the step after it, for any number of steps; on the first    *)
(* step taken with a key held, Vx receives the lowest-indexed held key and *)
(* pc advances to the next instruction.                                    *)
C14_GetKeyWaits ==
    [][StepOfGetKey =>
        /\ fault' = "none"
        /\ UNCHANGED <<mem, stack, sc, vi, dt, st, key_held, stop>>
        /\ IF HeldKeys = {}
           THEN /\ pc' = pc
                /\ vx' = vx
                /\ \A again \in {step(Cur', 0)} : again = Cur'
           ELSE /\ pc' = pc + 2
                /\ vx' = [vx EXCEPT ![x(Fetched)] =
                            CHOOSE k \in HeldKeys : \A j \in HeldKeys : k <= j]
      ]_vars

\* F10A has waited with V1 = 0xEE, then keys 3 and 7 were held: V1 = 3
C14_Witness ==
    /\ opcode = 61706
    /\ pc = 516
    /\ key_held[3] /\ key_held[7]
    /\ vx[1] = 3
    /\ fault = "none"

\* this transition is a call of decrement_timers
IsDecrement == fault = "none" /\ Cur' = decrement_timers(Cur)

\* consecutive calls of decrement_timers considered by the property
MaxTicks == 5

\* the session after k consecutive calls of decrement_timers
RECURSIVE Decrements(_, _)
Decrements(s, k) == IF k = 0 THEN s ELSE Decrements(decrement_timers(s), k - 1)

CountDown(t, k) == IF t > k THEN t - k ELSE 0

(* C15: decrement_timers lowers each nonzero timer by exactly 1 and leaves *)
(* a timer that is 0 at 0; after k consecutive calls a timer that held t   *)
(* holds max(0, t - k): it reaches 0, stays there and never wraps to 255.  *)
(* Between the calls only Fx15 changes the delay timer and only Fx18 the   *)
(* sound timer.                                                            *)
C15_TimersCountDownToZero ==
    /\ [][IsDecrement =>
            /\ dt' = CountDown(dt, 1)
            /\ st' = CountDown(st, 1)
            /\ UNCHANGED <<mem, stack, sc, vi, vx, pc, key_held, stop, fault>>
            /\ \A k \in 1..MaxTicks : \A after \in {Decrements(Cur, k)} :
                    /\ after.dt = CountDown(dt, k)
                    /\ after.st = CountDown(st, k)
         ]_vars
    /\ [][(dt' # dt /\ ~IsDecrement) =>
            Fetched > 0 /\ mode(Fetched) = 15 /\ nn(Fetched) = 21 /\ IsStep
         ]_vars
    /\ [][(st' # st /\ ~IsDecrement) =>
            Fetched > 0 /\ mode(Fetched) = 15 /\ nn(Fetched) = 24 /\ IsStep
         ]_vars

\* dt was set to 3 and st to 2; F207 read dt = 1 after two calls, and a
\* third call has brought dt to 0 with st still 0
C15_Witness ==
    /\ opcode = 61959
    /\ vx[0] = 3
    /\ vx[1] = 2
    /\ vx[2] = 1
    /\ dt = 0
    /\ st = 0
    /\ fault = "none"

\* this transition is a step that fetches FxNN with the given NN
StepOfMisc(k) == Fetched > 0 /\ mode(Fetched) = 15 /\ nn(Fetched) = k /\ IsStep

\* register files a program may leave between the store and the load
Clobbered == {[r \in 0..(NUM_REGISTERS - 1) |-> 0],
              [r \in 0..(NUM_REGISTERS - 1) |-> 255 - r]}

(* C16: for every k in 0..15, with the cells I..I+k inside the memory,     *)
(* Fk55 copies V0..Vk to memory[I..I+k] and Fk65 copies memory[I..I+k]     *)
(* into V0..Vk; Fk65 executed after Fk55 with the same I restores V0..Vk   *)
(* whatever the registers became in between; registers above Vk and cells  *)
(* outside [I, I+k] are untouched by either form, and I is unchanged.      *)
C16_RegistersRoundTrip ==
    /\ [][(StepOfMisc(85) /\ InRange(vi + x(Fetched))) =>
            LET k == x(Fetched)
            IN  /\ fault' = "none"
                /\ pc' = pc + 2
                /\ UNCHANGED <<vx, vi, stack, sc, dt, st, key_held, stop>>
                /\ \A a \in 0..(MAX_SIZE - 1) :
                        mem'[a] = IF a >= vi /\ a <= vi + k
                                  THEN vx[a - vi] ELSE mem[a]
                /\ \A junk \in Clobbered :
                     \A back \in {exec([Cur' EXCEPT !.vx = junk],
                                       Fetched + 16, 0)} :
                        /\ back.fault = "none"
                        /\ back.vi = vi
                        /\ back.mem = mem'
                        /\ \A r \in 0..(NUM_REGISTERS - 1) :
                                back.vx[r] = IF r <= k THEN vx[r] ELSE junk[r]
         ]_vars
    /\ [][(StepOfMisc(101) /\ InRange(vi + x(Fetched))) =>
            LET k == x(Fetched)
            IN  /\ fault' = "none"
                /\ pc' = pc + 2
                /\ UNCHANGED <<mem, vi, stack, sc, dt, st, key_held, stop>>
                /\ \A r \in 0..(NUM_REGISTERS - 1) :
                        vx'[r] = IF r <= k THEN mem[vi + r] ELSE vx[r]
         ]_vars

\* F255 stored 240, 144, 144 at 0x300, the registers were zeroed, and F265
\* has read the three back: V3 is still 0 and so is the cell at 0x303
C16_Witness ==
    /\ opcode = 62053
    /\ vi = 768
    /\ vx[0] = 240 /\ vx[1] = 144 /\ vx[2] = 144 /\ vx[3] = 0
    /\ mem[768] = 240 /\ mem[769] = 144 /\ mem[770] = 144 /\ mem[771] = 0
    /\ fault = "none"

\* h, t, o are the hundreds, tens and ones decimal digits of v
Digits(v, h, t, o) ==
    /\ h \in 0..9 /\ t \in 0..9 /\ o \in 0..9
    /\ 100 * h + 10 * t + o = v

(* C17: for every Vx in 0..255, with I, I+1, I+2 inside the memory, Fx33   *)
(* writes the hundreds, tens and ones decimal digits of Vx to memory[I],   *)
(* memory[I+1], memory[I+2] in that order, and changes neither I, nor any  *)
(* register, nor any other memory cell.  The transition is checked on the  *)
(* value Vx holds, the instruction on every value Vx could hold.           *)
C17_BcdWritesThreeDigits ==
    [][(StepOfMisc(51) /\ InRange(vi + 2)) =>
        /\ fault' = "none"
        /\ pc' = pc + 2
        /\ UNCHANGED <<vx, vi, stack, sc, dt, st, key_held, stop>>
        /\ Digits(vx[x(Fetched)], mem'[vi], mem'[vi + 1], mem'[vi + 2])
        /\ \A v \in 0..(U8 - 1) :
             \A from \in {[Cur EXCEPT !.vx[x(Fetched)] = v]} :
              \A to \in {exec(from, Fetched, 0)} :
                /\ to.fault = "none"
                /\ to.vx = from.vx
                /\ to.vi = vi
                /\ Digits(v, to.mem[vi], to.mem[vi + 1], to.mem[vi + 2])
                /\ to.mem = [mem EXCEPT ![vi] = to.mem[vi],
                                         ![vi + 1] = to.mem[vi + 1],
                                         ![vi + 2] = to.mem[vi + 2]]
      ]_vars

\* F033 with V0 = 156 and I = 0x500 has written 1, 5, 6
C17_Witness ==
    /\ opcode = 61491
    /\ vx[0] = 156
    /\ vi = 1280
    /\ mem[1280] = 1 /\ mem[1281] = 5 /\ mem[1282] = 6
    /\ mem[1279] = 0 /\ mem[1283] = 0
    /\ fault = "none"

\* the addresses the fetched instruction hands to Memory::read or
\* Memory::write when none of them fails: Fx33, Fx55, Fx65, and the rows
\* vi..(vi + n) of Dxyn, a range of u16
DataCells ==
    IF Fetched <= 0 THEN {}
    ELSE IF mode(Fetched) = 15 /\ nn(Fetched) = 51 THEN {vi, vi + 1, vi + 2}
    ELSE IF mode(Fetched) = 15 /\ nn(Fetched) \in {85, 101}
    THEN {vi + r : r \in 0..x(Fetched)}
    ELSE IF mode(Fetched) = 13
    THEN {vi + r : r \in {q \in 0..15 : vi + q < (vi + n(Fetched)) % U16}}
    ELSE {}

(* C18: every Memory access that touches an address above 0xFFF - a read   *)
(* or write at such an address, the second byte of the fetch at 0xFFF, the *)
(* fetch at pc > 0xFFF - is a fatal failure; it never wraps around to read *)
(* or write a cell inside 0x000..0xFFF.  A failed fetch changes nothing;   *)
(* a failed instruction has changed only cells it addressed inside the     *)
(* memory (pixels, for a sprite) and registers read from such cells.       *)
C18_OutOfRangeIsFatal ==
    [][IsStep =>
        /\ ~(pc <= 4094) =>
                /\ fault' # "none"
                /\ UNCHANGED <<mem, vx, vi, pc, stack, sc, dt, st, key_held,
                               stop>>
        /\ (pc <= 4094 /\ \E a \in DataCells : a > 4095) =>
                /\ fault' # "none"
                /\ UNCHANGED <<vi, stack, sc, dt, st, key_held, stop>>
                /\ \A c \in 0..(MAX_SIZE - 1) :
                        mem'[c] # mem[c] =>
                            \/ c \in DataCells
                            \/ mode(Fetched) = 13 /\ c \in Framebuffer
                /\ \A r \in 0..(NUM_REGISTERS - 1) :
                        vx'[r] # vx[r] =>
                            \/ /\ nn(Fetched) = 101
                               /\ vi + r <= 4095
                               /\ vx'[r] = mem[vi + r]
                            \/ mode(Fetched) = 13 /\ r = 15
      ]_vars

\* F033 with V0 = 156 and I = 0xFFE: 1 and 5 are in the last two cells, the
\* write of 6 at 0x1000 was fatal and cell 0 is untouched
C18_Witness ==
    /\ fault # "none"
    /\ opcode = 61491
    /\ vi = 4094
    /\ vx[0] = 156
    /\ mem[4094] = 1 /\ mem[4095] = 5
    /\ mem[0] = 0

\* the fields of a word, by arithmetic
Nibble1(w) == w \div 4096
Nibble4(w) == w % 16
LowByte(w) == w % 256

\* the words the instruction set gives no meaning to
Undecodable(w) ==
    \/ Nibble1(w) = 0 /\ w \notin {0, 224, 238}
    \/ Nibble1(w) \in {5, 9} /\ Nibble4(w) # 0
    \/ Nibble1(w) = 8 /\ Nibble4(w) \in {8, 9, 10, 11, 12, 13, 15}
    \/ Nibble1(w) = 14 /\ LowByte(w) \notin {158, 161}
    \/ Nibble1(w) = 15 /\ LowByte(w) \notin {7, 10, 21, 24, 30, 41, 51, 85, 101}

(* C19: a step that fetches an undecodable word - 0nnn other than 0000,    *)
(* 00E0 and 00EE; 5xyN or 9xyN with N # 0; 8xyN with N in {8..D, F}; ExNN  *)
(* with NN not in {9E, A1}; FxNN with NN not in {07, 0A, 15, 18, 1E, 29,   *)
(* 33, 55, 65} - fails fatally, having changed nothing but pc; no call is  *)
(* made on the session after a failure, so the next instruction never runs.*)
C19_UndecodableIsFatal ==
    /\ [][(Fetched >= 0 /\ Undecodable(Fetched) /\ IsStep) =>
            /\ fault' # "none"
            /\ pc' = pc + 2
            /\ UNCHANGED <<mem, vx, vi, stack, sc, dt, st, key_held, stop>>
         ]_vars
    /\ [][fault = "none"]_vars

\* 801F has failed; the 6A05 after it has not set VA
C19_Witness ==
    /\ fault # "none"
    /\ opcode = 32799
    /\ pc = 514
    /\ mem[514] = 106 /\ mem[515] = 5
    /\ vx[10] = 0

\* the pixel at (px, py) is lit: bit px + 64 * py of the framebuffer, the
\* most significant bit of a byte first
PixelLit(px, py) ==
    LET bit == px + 64 * py
    IN  (mem[DISPLAY_LOC + (bit \div 8)] \div (2 ^ (7 - (bit % 8)))) % 2 = 1

\* the program of test_display is in memory
TestDisplayLoaded ==
    \A i \in 1..Len(TestDisplay) : mem[PROG_LOC + i - 1] = TestDisplay[i]

\* the loop `while !interpreter.stop() { interpreter.step() }` has just ended
JustHalted == stop /\ opcode = 0

(* C20: with pixel (2,3) pre-set and the program A20A 6001 6102 D012 0000  *)
(* followed by the sprite bytes FF, F0 at 0x200, stepping until the halt   *)
(* flag is set ends with VF = 1, pixels (1..8, 2) and (1..4, 3) set except *)
(* (2,3), which is clear, and every other pixel of the 64x32 display clear.*)
C20_TestDisplayScenario ==
    (TestDisplayLoaded /\ JustHalted) =>
        /\ fault = "none"
        /\ vx[15] = 1
        /\ \A p \in Screen :
                PixelLit(p[1], p[2]) <=>
                    /\ p # <<2, 3>>
                    /\ \/ p[2] = 2 /\ p[1] \in 1..8
                       \/ p[2] = 3 /\ p[1] \in 1..4

\* the scenario has halted: row 2 holds 0111 1111 1000 0000 from column 0,
\* row 3 holds 0101 1000, and VF is 1
C20_Witness ==
    /\ TestDisplayLoaded
    /\ JustHalted
    /\ pc = 522
    /\ vx[15] = 1
    /\ mem[3856] = 127 /\ mem[3857] = 128 /\ mem[3864] = 88

\* no register but rx changes
OtherRegistersKept(rx) ==
    \A r \in 0..(NUM_REGISTERS - 1) : r # rx => vx'[r] = vx[r]

\* exec of 7xkk in the state s with Vx replaced by a leaves (a + k) mod 256
\* in Vx, every other register as it was, and no fault
AddImmediateOf(s, rx, a, k) ==
    \A t \in {exec([s EXCEPT !.vx[rx] = a], 28672 + 256 * rx + k, 0)} :
        /\ t.fault = "none"
        /\ t.vx = [s.vx EXCEPT ![rx] = (a + k) % 256]

(* C21: 7xNN with Vx = a leaves Vx = (a + NN) mod 256 in both builds, has  *)
(* no flag side effect and leaves every other register unchanged (VF holds *)
(* the sum when x is F); checked at each executed 7xNN and, through exec,  *)
(* for every a with the fetched NN and for every NN with the present Vx.   *)
C21_AddImmediateWraps ==
    [][StepOfMode(7) =>
        \A op \in {Fetched} :
            /\ OnlyRegistersChange
            /\ vx'[x(op)] = (vx[x(op)] + nn(op)) % 256
            /\ OtherRegistersKept(x(op))
            /\ \A s \in {Cur}, rx \in {x(op)} :
                    /\ \A a \in 0..(U8 - 1) : AddImmediateOf(s, rx, a, nn(op))
                    /\ \A k \in 0..(U8 - 1) : AddImmediateOf(s, rx, vx[rx], k)]_vars

\* 71FF has run with V1 = 255 in the debug build: V1 = 254 and VF is still 0
C21_Witness ==
    /\ opcode = 29183
    /\ vx[1] = 254
    /\ vx[15] = 0
    /\ pc = 516
    /\ build = "debug"
    /\ fault = "none"

\* this transition is a step that fetches 3xnn, 4xnn, 5xy0 or 9xy0
StepOfSkip ==
    /\ Fetched > 0
    /\ \/ mode(Fetched) \in {3, 4}
       \/ mode(Fetched) \in {5, 9} /\ n(Fetched) = 0
    /\ IsStep

\* the condition the skip instruction op documents, on the present registers
SkipCondition(op) ==
    CASE mode(op) = 3 -> vx[x(op)] = nn(op)
      [] mode(op) = 4 -> vx[x(op)] # nn(op)
      [] mode(op) = 5 -> vx[x(op)] = vx[y(op)]
      [] mode(op) = 9 -> vx[x(op)] # vx[y(op)]

(* C22: a skip instruction fetched at address a leaves pc = a + 4 when its *)
(* condition holds and pc = a + 2 otherwise, and changes nothing else; the *)
(* conditions are Vx = nn (3xnn), Vx # nn (4xnn), Vx = Vy (5xy0) and       *)
(* Vx # Vy (9xy0).                                                         *)
C22_SkipsAdvanceProgramCounter ==
    [][StepOfSkip =>
        /\ pc' = (IF SkipCondition(Fetched) THEN pc + 4 ELSE pc + 2)
        /\ fault' = "none"
        /\ UNCHANGED <<mem, stack, sc, vi, vx, dt, st, key_held, stop>>]_vars

\* 9120 fetched at 0x204 with V1 = 7 and V2 = 0 has skipped to 0x208
C22_Witness ==
    /\ opcode = 37152
    /\ vx[1] = 7
    /\ vx[2] = 0
    /\ pc = 520
    /\ fault = "none"

\* the next step fetches Ex9E or ExA1
FetchedKeySkip ==
    Fetched > 0 /\ mode(Fetched) = 14 /\ nn(Fetched) \in {158, 161}

(* C23: when Vx is in 0..15, Ex9E leaves pc 4 past its own address iff key *)
(* Vx is held in the key vector of that moment and 2 past it otherwise,    *)
(* ExA1 the reverse; neither changes the key vector or any register.       *)
C23_KeySkipsFollowKeyVector ==
    [][(FetchedKeySkip /\ vx[x(Fetched)] < NUM_KEYS /\ IsStep) =>
        /\ fault' = "none"
        /\ pc' = pc + (IF (nn(Fetched) = 158) <=> (vx[x(Fetched)] \in HeldKeys)
                       THEN 4 ELSE 2)
        /\ UNCHANGED <<key_held, vx>>]_vars

\* E19E fetched at 0x202 with V1 = 3 while keys 3 and 7 are held has skipped
C23_Witness ==
    /\ opcode = 57758
    /\ vx[1] = 3
    /\ HeldKeys = HighKeys
    /\ pc = 518
    /\ fault = "none"

(* C30: Ex9E and ExA1 index the key vector with the whole 8-bit Vx, not    *)
(* with its low 4 bits: when Vx >= 16 the step ends in a fatal fault (the  *)
(* index is out of the 16 keys) and no skip is decided, in both builds.    *)
C30_KeyIndexIsNotMasked ==
    [][(FetchedKeySkip /\ vx[x(Fetched)] >= NUM_KEYS /\ IsStep) =>
        fault' = "index out of bounds: key_held"]_vars

\* E1A1 with V1 = 16 has faulted in the release build; key 0, the key a
\* 4-bit mask would have selected, is held
C30_Witness ==
    /\ fault = "index out of bounds: key_held"
    /\ vx[1] = 16
    /\ mem[514] = 225 /\ mem[515] = 161
    /\ HeldKeys = {0}
    /\ build = "release"

\* exec of the Fx1E word op in the state s with Vx replaced by v leaves
\* (I + v) mod 65536 in I and every register as it was, and no fault
AddToIndexOf(s, op, v) ==
    \A u \in {[s EXCEPT !.vx[x(op)] = v]} : \A t \in {exec(u, op, 0)} :
        /\ t.fault = "none"
        /\ t.vi = (s.vi + v) % U16
        /\ t.vx = u.vx

\* values of Vx tried at every value of I an executed Fx1E meets
AddToIndexValues == {0, 1, 128, 255}

(* C25: Fx1E leaves I = (I + Vx) mod 65536 in both builds and defines no   *)
(* overflow flag: VF and every other register keep their values; checked   *)
(* at each executed Fx1E (I runs from 0xFFF past 0xFFFF in steps of 255)   *)
(* and, through exec, for the values of Vx in AddToIndexValues.            *)
C25_AddToIndexWraps ==
    [][StepOfMisc(30) =>
        /\ fault' = "none"
        /\ vi' = (vi + vx[x(Fetched)]) % U16
        /\ UNCHANGED vx
        /\ \A s \in {Cur}, op \in {Fetched} :
                \A v \in AddToIndexValues : AddToIndexOf(s, op, v)]_vars

\* the second F01E of IndexAdd has run: I = 0xFFF + 255 + 255, beyond the
\* 12-bit address space, and VF is still 0
C25_Witness ==
    /\ opcode = 61470
    /\ vi = 4605
    /\ vx[0] = 255
    /\ vx[15] = 0
    /\ pc = 520
    /\ fault = "none"

(* C27: pc starts at 0x200 and a step advances it by 2 before it executes  *)
(* the fetched word (6xnn leaves it 2 past its own address); a jump        *)
(* overwrites the advanced value: 1nnn leaves pc = nnn and Bnnn leaves     *)
(* pc = nnn + V0, whatever address the jump was fetched from.              *)
C27_JumpsOverwriteAdvancedCounter ==
    /\ pc = PROG_LOC
    /\ [][/\ StepOfMode(6) => pc' = pc + 2
          /\ StepOfMode(1) => (pc' = nnn(Fetched) /\ fault' = "none")
          /\ StepOfMode(11) =>
                (pc' = nnn(Fetched) + vx[0] /\ fault' = "none")]_vars

\* B206 fetched at 0x202 with V0 = 4 has left pc = 0x20A
C27_Witness ==
    /\ opcode = 45574
    /\ vx[0] = 4
    /\ pc = 522
    /\ fault = "none"

\* bit b (0 the least significant) of the byte v
BitOf(v, b) == (v \div (2 ^ b)) % 2

\* r AND k on bytes, bit by bit
Masked(r, k) ==
    LET bit(b) == IF BitOf(r, b) = 1 /\ BitOf(k, b) = 1 THEN 2 ^ b ELSE 0
    IN  bit(0) + bit(1) + bit(2) + bit(3) + bit(4) + bit(5) + bit(6) + bit(7)

\* the registers and the fault a step from the state s may end with, one
\* pair for each byte the random source may return
StepOutcomes(s) ==
    {<<t.vx, t.fault, t.pc>> : t \in {step(s, r) : r \in RandomSource(s)}}

\* the next step fetches Cxnn
FetchedRandom == fault = "none" /\ Fetched > 0 /\ mode(Fetched) = 12

(* C28: whatever byte the random source returns, Cxnn leaves in Vx no bit  *)
(* that is clear in nn and changes no other register; and every value     *)
(* r AND nn, r in 0..255, is the Vx that some byte of the source leaves.   *)
C28_RandomIsMasked ==
    FetchedRandom =>
        \A rx \in {x(Fetched)}, k \in {nn(Fetched)} :
            \A outcomes \in {StepOutcomes(Cur)} :
                /\ \A o \in outcomes :
                        /\ o[2] = "none"
                        /\ o[3] = pc + 2
                        /\ \A b \in 0..7 :
                                BitOf(o[1][rx], b) = 1 => BitOf(k, b) = 1
                        /\ \A i \in 0..(NUM_REGISTERS - 1) :
                                i # rx => o[1][i] = vx[i]
                /\ \A r \in 0..(U8 - 1) :
                        \E o \in outcomes : o[1][rx] = Masked(r, k)

\* CFA5 has run and left 0x84 in VF: bits 7 and 2, both set in 0xA5
C28_Witness ==
    /\ opcode = 53157
    /\ vx[15] = 132
    /\ pc = 514
    /\ fault = "none"

\* the cells of memory this transition changes
ChangedCells == {a \in 0..(MAX_SIZE - 1) : mem'[a] # mem[a]}

\* op is one of 00E0, Dxyn, Fx33, Fx55
WritesMemory(op) ==
    \/ op = 224
    \/ op > 0 /\ mode(op) = 13
    \/ op > 0 /\ mode(op) = 15 /\ nn(op) \in {51, 85}

(* C29: memory changes only in a step that executes 00E0, Dxyn, Fx33 or    *)
(* Fx55: a step of any other instruction, and any other event, leaves all  *)
(* 4096 cells as they were; and the cells 00E0 and Dxyn change lie in the  *)
(* framebuffer 0x0F00..0x0FFF.                                             *)
C29_OnlyFourInstructionsWriteMemory ==
    [][mem' # mem =>
        /\ IsStep
        /\ WritesMemory(Fetched)
        /\ (Fetched = 224 \/ mode(Fetched) = 13) =>
                ChangedCells \subseteq Framebuffer]_vars

\* the second 00E0 of Tour has cleared the sprite drawn at (8, 0); font and
\* program are as loaded
C29_Witness ==
    /\ opcode = 224
    /\ pc = 550
    /\ mem[3841] = 0
    /\ mem[80] = 240
    /\ mem[513] = 224
    /\ fault = "none"

\* write_u16(addr, v) on the state s stores v's high byte at addr and its low
\* byte at addr + 1 and nothing else, and read_u16(addr) then returns v, which
\* is memory[addr] * 256 + memory[addr + 1]
WordRoundTrip(s, addr, v) ==
    \A t \in {write_u16(s, addr, v)} :
        /\ t.fault = "none"
        /\ t.mem = [s.mem EXCEPT ![addr] = v \div 256, ![addr + 1] = v % 256]
        /\ read_u16(t, addr) = t.mem[addr] * 256 + t.mem[addr + 1]
        /\ read_u16(t, addr) = v

\* the last address a 16-bit word fits at
LastWordAddress == MAX_SIZE - 2

\* the state s with its memory cut down to the cells addr and addr + 1
TwoCells(s, addr) == [s EXCEPT !.mem = [a \in {addr, addr + 1} |-> s.mem[a]]]

\* the address every 16-bit word is written at: that of test_read_write_u16
EveryWordAddresses == {4}

\* words written at every address of memory
SweepValues == {49218, 255, 65280}

(* C24: write_u16(addr, v) stores the most-significant byte of v at addr   *)
(* and the least-significant byte at addr + 1, read_u16(addr) returns      *)
(* memory[addr] * 256 + memory[addr + 1], and so read_u16 after write_u16  *)
(* returns v: for every v in 0..0xFFFF at address 0x0004 (on the two cells *)
(* concerned), for every addr in 0..0xFFE with the words of SweepValues    *)
(* (on the whole memory), and at each write_u16 performed.                 *)
C24_WordsAreBigEndian ==
    /\ \A addr \in EveryWordAddresses : \A s \in {TwoCells(Cur, addr)} :
            \A v \in 0..(U16 - 1) : WordRoundTrip(s, addr, v)
    /\ \A s \in {Cur} : \A addr \in 0..LastWordAddress, v \in SweepValues :
            WordRoundTrip(s, addr, v)
    /\ [][(fault = "none" /\ mem = new_memory) =>
            \A addr \in WordAddresses, v \in WordValues :
                Cur' = write_u16(Cur, addr, v) =>
                    /\ mem'[addr] = v \div 256
                    /\ mem'[addr + 1] = v % 256
                    /\ \A a \in 0..(MAX_SIZE - 1) :
                            a \notin {addr, addr + 1} => mem'[a] = mem[a]
                    /\ read_u16(Cur', addr) = v]_vars

\* write_u16(0x0004, 0xC042) on a new memory: C0 at 0x0004, 42 at 0x0005
C24_Witness ==
    /\ mem[4] = 192
    /\ mem[5] = 66
    /\ read_u16(Cur, 4) = 49218
    /\ \A a \in 0..(MAX_SIZE - 1) : a \notin {4, 5} => mem[a] = 0
    /\ fault = "none"

\* the byte that holds pixel p, and the weight of its bit in that byte:
\* bit index i = x + 64 y, byte 0x0F00 + i / 8, bit i % 8 from the top
PixelCell(p) == 3840 + ((p[1] + 64 * p[2]) \div 8)

PixelWeight(p) == 2 ^ (7 - ((p[1] + 64 * p[2]) % 8))

\* the memory m with the bit of pixel p toggled and nothing else changed
Toggled(m, p) ==
    [m EXCEPT ![PixelCell(p)] =
        IF (@ \div PixelWeight(p)) % 2 = 1 THEN @ - PixelWeight(p)
        ELSE @ + PixelWeight(p)]

\* pixels read in every state: those written and some of their neighbours
ReadPixels == Pixels \cup {<<1, 0>>, <<6, 0>>, <<9, 0>>, <<3, 3>>, <<62, 31>>}

(* C26: pixel (x, y) is bit i % 8, counted from the most significant bit,  *)
(* of byte 0x0F00 + i / 8, where i = x + 64 y: on a new memory, for every   *)
(* pixel of the 64x32 screen, write_pixel sets exactly that bit, read_pixel*)
(* then returns 1 and a second write_pixel restores the memory; in every   *)
(* state read_pixel returns that bit; and each write_pixel performed       *)
(* toggles that bit and leaves every other bit of memory unchanged.        *)
C26_PixelIsOneBit ==
    /\ \A s \in {Cur} : \A p \in Screen :
            /\ read_pixel(s, p[1], p[2]) = 0
            /\ \A t \in {write_pixel(s, p[1], p[2])} :
                    /\ t.fault = "none"
                    /\ t.mem = Toggled(s.mem, p)
                    /\ read_pixel(t, p[1], p[2]) = 1
                    /\ write_pixel(t, p[1], p[2]).mem = s.mem
    /\ [](\A s \in {Cur} : \A p \in ReadPixels :
            read_pixel(s, p[1], p[2]) = (mem[PixelCell(p)] \div PixelWeight(p)) % 2)
    /\ [][fault = "none" =>
            \A p \in Pixels :
                Cur' = write_pixel(Cur, p[1], p[2]) => mem' = Toggled(mem, p)]_vars

\* (0, 0) and (7, 0) have been written: the first byte of the framebuffer is
\* 1000 0001, and the pixels between them read 0
C26_Witness ==
    /\ mem[3840] = 129
    /\ read_pixel(Cur, 0, 0) = 1
    /\ read_pixel(Cur, 7, 0) = 1
    /\ read_pixel(Cur, 1, 0) = 0
    /\ read_pixel(Cur, 6, 0) = 0
    /\ read_pixel(Cur, 8, 0) = 0
    /\ fault = "none"

\* the next step fetches Fxkk
FetchedMisc(k) == Fetched > 0 /\ mode(Fetched) = 15 /\ nn(Fetched) = k

\* decrement_timers or a step has brought this transition about
TimerEvent(k, timer) ==
    \/ IsDecrement
    \/ FetchedMisc(k) /\ IsStep /\ timer = vx[x(Fetched)]

(* C31: the delay timer changes only in decrement_timers and in a step of  *)
(* Fx15, which leaves Vx in it; the sound timer only in decrement_timers   *)
(* and in a step of Fx18; so a step of any other instruction and a key     *)
(* event leave both timers as they were. Fx07 leaves the delay timer in Vx *)
(* and changes neither timer, and decrement_timers changes nothing but the *)
(* two timers.                                                             *)
C31_TimersHaveThreeWriters ==
    [][/\ dt' # dt => TimerEvent(21, dt')
       /\ st' # st => TimerEvent(24, st')
       /\ StepOfMisc(7) =>
            /\ vx'[x(Fetched)] = dt
            /\ OtherRegistersKept(x(Fetched))
            /\ UNCHANGED <<dt, st>>
       /\ ((dt > 0 \/ st > 0) /\ IsDecrement) =>
            UNCHANGED <<mem, stack, sc, vi, vx, pc, key_held, stop, opcode,
                        fault, build>>]_vars

\* F007 of TimedTour has run after one decrement between F015 and F018:
\* V0 holds the delay timer, 1, and the timers are still 1 and 2
C31_Witness ==
    /\ opcode = 61447
    /\ vx[0] = 1
    /\ dt = 1
    /\ st = 2
    /\ pc = 574
    /\ fault = "none"

====
